---- MODULE Spec2Model ----
(***************************************************************************)
(* breakItUp.py: metrical hierarchies (offsetHierarchyFromTS,              *)
(* offsetsFromTSAndLevels, offsetListFromPulseLengths) and the ReGrouper   *)
(* that splits a note (start offset, length) against such a hierarchy.     *)
(*                                                                         *)
(* Numbers.  Every offset, pulse and length is an integer count of ticks,  *)
(* one tick being 1/16 of a quarter length (the 64th note, the shortest    *)
(* pulse offsetHierarchyFromTS supports), so 1.0 quarter = 16 ticks and    *)
(* 4.5 quarters = 72 ticks.  On this grid Python's float arithmetic is     *)
(* exact, so +, -, <, = and "in" are the integer ones.                     *)
(*                                                                         *)
(* Strings.  A time signature string is the tuple of its characters,       *)
(* '6/8' being <<"6", "/", "8">>; split and int work on those tuples.      *)
(*                                                                         *)
(* Absent arguments.  None is the tuple <<"None">> for timeSignature; for  *)
(* the list arguments None is <<>>, which the code's truth tests           *)
(* ("if offsetHierarchy:") do not tell apart from [].                      *)
(***************************************************************************)
EXTENDS Integers, Sequences, FiniteSets, TLC

\* ------------------------------------------------------------------ bounds

\* Longest measure, in ticks, of the hierarchies enumerated from scratch.
MaxMeasure == 4

\* Most levels below level 0 in the hierarchies enumerated from scratch.
MaxDepth == 2

\* Stand-in for the interpreter's recursion limit (frames on the stack); no
\* run that ends by itself gets this deep (RecursionLimitIsEnough).
RecursionLimit == 40

\* ------------------------------------------------------- values and helpers

None == <<"None">>

Return(v) == [err |-> "", val |-> v]

Raise(e) == [err |-> e, val |-> <<>>]

Max(a, b) == IF a >= b THEN a ELSE b

RECURSIVE sum(_)
sum(xs) == IF xs = <<>> THEN 0 ELSE Head(xs) + sum(Tail(xs))

\* x in xs, for a list xs
In(x, xs) == \E i \in 1..Len(xs) : xs[i] = x

\* max(xs), for a non-empty list xs
max(xs) == CHOOSE m \in {xs[i] : i \in 1..Len(xs)} : \A i \in 1..Len(xs) : xs[i] <= m

\* sorted(xs): insertion of each element after the elements not above it
RECURSIVE insert(_, _)
insert(x, xs) ==
    IF xs = <<>> THEN <<x>>
    ELSE IF x < Head(xs) THEN <<x>> \o xs
    ELSE <<Head(xs)>> \o insert(x, Tail(xs))

RECURSIVE sorted(_)
sorted(xs) == IF xs = <<>> THEN <<>> ELSE insert(Head(xs), sorted(Tail(xs)))

\* xs[::-1]
reversed(xs) == [i \in 1..Len(xs) |-> xs[Len(xs) + 1 - i]]

\* str.split(sep) on a tuple of characters
RECURSIVE split(_, _)
split(s, sep) ==
    IF \A i \in 1..Len(s) : s[i] # sep THEN <<s>>
    ELSE LET k == CHOOSE i \in 1..Len(s) :
                    s[i] = sep /\ \A j \in 1..(i - 1) : s[j] # sep
         IN  <<SubSeq(s, 1, k - 1)>> \o split(SubSeq(s, k + 1, Len(s)), sep)

Digits == <<"0", "1", "2", "3", "4", "5", "6", "7", "8", "9">>

\* int(s) succeeds: s is a non-empty run of decimal digits
isInt(s) == Len(s) > 0 /\ \A i \in 1..Len(s) : In(s[i], Digits)

DigitValue(c) == (CHOOSE d \in 1..10 : Digits[d] = c) - 1

\* int(s), for a run of decimal digits
RECURSIVE int(_)
int(s) ==
    IF Len(s) = 0 THEN 0
    ELSE 10 * int(SubSeq(s, 1, Len(s) - 1)) + DigitValue(s[Len(s)])

\* -------------------------------------------------- one-level converters

supportedDenominators == <<1, 2, 4, 8, 16, 32, 64>>

\* ticks in a whole note; a quarter length is WholeNote / 4 ticks
WholeNote == supportedDenominators[Len(supportedDenominators)]

\* n * 4 / denominator quarter lengths, in ticks
QuarterLengths(n, denominator) == (n * WholeNote) \div denominator

\* -(-a // b): the length numpy.arange gives a range of a ticks in steps of b
CeilDiv(a, b) == IF a <= 0 THEN 0 ELSE (a + b - 1) \div b

\* [i for i in np.arange(0, measureLength, pulseLength)] + [measureLength]
offsetsFromLengths(measureLength, pulseLength) ==
    [i \in 1..CeilDiv(measureLength, pulseLength) |-> (i - 1) * pulseLength]
        \o <<measureLength>>

\* offsetsFromBeatPattern counting each beat before recording its offset
offsetsFromBeatPatternCountFirst(beatList, denominator) ==
    [i \in 1..(Len(beatList) + 1) |->
        QuarterLengths(sum(SubSeq(beatList, 1, IF i > Len(beatList) THEN i - 1 ELSE i)),
                       denominator)]

\* the running count before each beat of beatList, then the total
offsetsFromBeatPattern(beatList, denominator) ==
    [i \in 1..(Len(beatList) + 1) |->
        QuarterLengths(sum(SubSeq(beatList, 1, i - 1)), denominator)]

\* -------------------------------------------------- offsetHierarchyFromTS

\* numerators is kept as the list of its layers: a plain list of numbers is
\* the one layer <<list>> (nested FALSE), a list of lists its layers (nested
\* TRUE, what type(numerators[0]) == list tests).
Plain(xs) == [nested |-> FALSE, layers |-> <<xs>>]

Nested(xss) == [nested |-> TRUE, layers |-> xss]

hiddenLayerMappings ==
    << <<Plain(<<4>>), Plain(<<2, 2>>)>>,
       <<Plain(<<6>>), Plain(<<3, 3>>)>>,
       <<Plain(<<9>>), Plain(<<3, 3, 3>>)>>,
       <<Plain(<<12>>), Nested(<< <<6, 6>>, <<3, 3, 3, 3>> >>)>>,
       <<Plain(<<15>>), Plain(<<3, 3, 3, 3, 3>>)>>,
       <<Plain(<<6, 9>>), Nested(<< <<6, 9>>, <<3, 3, 3, 3, 3>> >>)>>,
       <<Plain(<<9, 6>>), Nested(<< <<6, 6>>, <<3, 3, 3, 3, 3>> >>)>> >>

\* for h in hiddenLayerMappings: if numerators == h[0]: numerators = h[1]
RECURSIVE applyHiddenLayerMappings(_, _)
applyHiddenLayerMappings(numerators, k) ==
    IF k > Len(hiddenLayerMappings) THEN numerators
    ELSE applyHiddenLayerMappings(
            IF numerators = hiddenLayerMappings[k][1]
            THEN hiddenLayerMappings[k][2] ELSE numerators,
            k + 1)

\* len(numerators)
lenNumerators(numerators) ==
    IF numerators.nested THEN Len(numerators.layers) ELSE Len(numerators.layers[1])

\* position of x in supportedDenominators, counted from 1
denominatorPower(x) == CHOOSE i \in 1..Len(supportedDenominators) : supportedDenominators[i] = x

\* steps 1 to 3 of offsetHierarchyFromTS, for checked numerators and denominator
buildHierarchy(numerators, denominator, minimumPulse) ==
    LET sumNum == sum(numerators.layers[1])
        measureLength == QuarterLengths(sumNum, denominator)
        top == << <<0, measureLength>> >>
        hidden ==
            IF lenNumerators(numerators) > 1
            THEN IF numerators.nested
                 THEN [i \in 1..Len(numerators.layers) |->
                          offsetsFromBeatPattern(numerators.layers[i], denominator)]
                 ELSE <<offsetsFromBeatPattern(numerators.layers[1], denominator)>>
            ELSE <<>>
        thisDenominatorPower == denominatorPower(denominator)
        maxDenominatorPower == denominatorPower(minimumPulse)
        lower ==
            [i \in 1..Max(0, maxDenominatorPower - thisDenominatorPower + 1) |->
                offsetsFromLengths(
                    measureLength,
                    QuarterLengths(1, supportedDenominators[thisDenominatorPower + i - 1]))]
    IN  top \o hidden \o lower

offsetHierarchyFromTS(tsStr, minimumPulse) ==
    IF tsStr = None THEN Raise("AttributeError")
    ELSE LET parts == split(tsStr, "/") IN
    IF Len(parts) # 2 THEN Raise("ValueError")
    ELSE LET numerator == split(parts[1], "+") IN
    IF ~(\A i \in 1..Len(numerator) : isInt(numerator[i])) \/ ~isInt(parts[2])
    THEN Raise("ValueError")
    ELSE LET denominator == int(parts[2]) IN
    IF ~In(denominator, supportedDenominators) THEN Raise("ValueError")
    ELSE IF ~In(minimumPulse, supportedDenominators) THEN Raise("ValueError")
    ELSE Return(buildHierarchy(
            applyHiddenLayerMappings(
                Plain([i \in 1..Len(numerator) |-> int(numerator[i])]), 1),
            denominator, minimumPulse))

\* the default of the minimumPulse parameter
DefaultMinimumPulse == 64


\* ------------------------------------------------- offsetsFromTSAndLevels

\* the default of the levels parameter
defaultLevels == <<0, 1, 2, 3>>

\* the deepest level offsetsFromTSAndLevels accepts
maxLevelDepth == 6

\* xs[i] can be evaluated: Python's list index, negative ones counting back
indexOK(xs, i) == -Len(xs) <= i /\ i < Len(xs)

\* xs[i], by Python's list index
index(xs, i) == IF i >= 0 THEN xs[i + 1] ELSE xs[Len(xs) + i + 1]

\* the levels asked for, smallest first, level 0 put first when it is missing
arrangeLevels(levels) ==
    IF In(0, sorted(levels)) THEN sorted(levels) ELSE <<0>> \o sorted(levels)

\* offsetsFromTSAndLevels with useMusic21 False (music21 is no part of this code)
offsetsFromTSAndLevels(timeSigStr, levels) ==
    IF levels = <<>> THEN Raise("ValueError")
    ELSE IF max(levels) > maxLevelDepth THEN Raise("ValueError")
    ELSE LET fullHierarchy == offsetHierarchyFromTS(timeSigStr, DefaultMinimumPulse)
             arranged == arrangeLevels(levels)
         IN  IF fullHierarchy.err # "" THEN fullHierarchy
             ELSE IF \E i \in 1..Len(arranged) : ~indexOK(fullHierarchy.val, arranged[i])
             THEN Raise("IndexError")
             ELSE Return([i \in 1..Len(arranged) |-> index(fullHierarchy.val, arranged[i])])

\* --------------------------------------------- offsetListFromPulseLengths

\* ratioNot2or3 letting any whole ratio from 2 to 4 pass
ratioNot2to4(a, b) == a # 2 * b /\ a # 3 * b /\ a # 4 * b

\* pulseLengths[level] / pulseLengths[level + 1] not in [2, 3]
ratioNot2or3(a, b) == a # 2 * b /\ a # 3 * b

\* sorted(pulseLengths)[::-1]
largestFirst(pulseLengths) == reversed(sorted(pulseLengths))

\* measureLength None is 0 here: "if not measureLength" takes both the same way.
\* Pulse lengths are positive numbers.
offsetListFromPulseLengths(pulseLengths, measureLength, require2or3betweenLevels) ==
    LET pulses == largestFirst(pulseLengths) IN
    IF pulses = <<>> THEN Raise("IndexError")
    ELSE IF measureLength # 0 /\ pulses[1] > measureLength THEN Raise("ValueError")
    ELSE IF require2or3betweenLevels
            /\ \E level \in 1..(Len(pulses) - 1) : ratioNot2or3(pulses[level], pulses[level + 1])
    THEN Raise("ValueError")
    ELSE LET length == IF measureLength = 0 THEN pulses[1] ELSE measureLength
         IN  Return([k \in 1..Len(pulses) |-> offsetsFromLengths(length, pulses[k])])


\* ---------------------------------------------------------------- ReGrouper

VARIABLES
    call,                \* the call made: the function and its arguments
    result,              \* what the call returned or raised
    status,              \* "idle", "returned", "raised", "running" or "done"
    offsetHierarchy,     \* self.offsetHierarchy
    noteStartOffset,     \* self.noteStartOffset
    noteLength,          \* self.noteLength
    splitSameLevel,      \* self.splitSameLevel
    offsetDurationPairs, \* self.offsetDurationPairs
    updatedOffset,       \* self.updatedOffset
    remainingLength,     \* self.remainingLength
    stack                \* the frames of levelPass and advanceOneStep, innermost last

vars == <<call, result, status, offsetHierarchy, noteStartOffset, noteLength,
          splitSameLevel, offsetDurationPairs, updatedOffset, remainingLength, stack>>

fields == <<offsetHierarchy, noteStartOffset, noteLength, splitSameLevel,
            offsetDurationPairs, updatedOffset, remainingLength, stack>>

\* A frame of levelPass: levelIndex is the level the for loop looks at next,
\* len(offsetHierarchy) once the loop is over; pc is "for" in the loop, "tail"
\* while the advanceOneStep of line 229 runs, "end" while the levelPass of
\* line 231 runs.
levelPassFrame == [fn |-> "levelPass", pc |-> "for", levelIndex |-> 0, positionsList |-> <<>>]

\* A frame of advanceOneStep: pc is "for" before its loop, "end" while the
\* levelPass of line 254 runs.
advanceOneStepFrame(positionsList) ==
    [fn |-> "advanceOneStep", pc |-> "for", levelIndex |-> 0, positionsList |-> positionsList]

top == stack[Len(stack)]

\* the stack with its innermost frame replaced by f
setTop(f) == [stack EXCEPT ![Len(stack)] = f]

\* createHierarchy looking at pulseLengths before offsetHierarchy
createHierarchyPulsesFirst(timeSignature, levels, pulseLengths, hierarchy) ==
    LET made ==
            IF pulseLengths # <<>>
            THEN offsetListFromPulseLengths(pulseLengths, 0, FALSE)
            ELSE IF hierarchy # <<>> THEN Return(hierarchy)
            ELSE IF levels # <<>>
            THEN IF timeSignature = None \/ timeSignature = <<>>
                 THEN Raise("ValueError")
                 ELSE offsetsFromTSAndLevels(timeSignature, levels)
            ELSE offsetsFromTSAndLevels(timeSignature, defaultLevels)
    IN  IF made.err = "" /\ made.val = <<>> THEN Raise("ValueError") ELSE made

\* the source __init__ takes the hierarchy from (lines 166 to 181)
createHierarchy(timeSignature, levels, pulseLengths, hierarchy) ==
    LET made ==
            IF hierarchy # <<>> THEN Return(hierarchy)
            ELSE IF pulseLengths # <<>>
            THEN offsetListFromPulseLengths(pulseLengths, 0, FALSE)
            ELSE IF levels # <<>>
            THEN IF timeSignature = None \/ timeSignature = <<>>
                 THEN Raise("ValueError")
                 ELSE offsetsFromTSAndLevels(timeSignature, levels)
            ELSE offsetsFromTSAndLevels(timeSignature, defaultLevels)
    IN  IF made.err = "" /\ made.val = <<>> THEN Raise("ValueError") ELSE made

\* ReGrouper(...): __init__ up to its call of levelPass
Construct(start, length, timeSignature, levels, pulseLengths, hierarchy, sameLevel) ==
    LET made == createHierarchy(timeSignature, levels, pulseLengths, hierarchy) IN
    /\ status = "idle"
    /\ call' = [fn |-> "ReGrouper", timeSignature |-> timeSignature, levels |-> levels,
                pulseLengths |-> pulseLengths, offsetHierarchy |-> hierarchy]
    /\ result' = made
    /\ noteStartOffset' = start
    /\ noteLength' = length
    /\ splitSameLevel' = sameLevel
    /\ IF made.err # ""
       THEN /\ status' = "raised"
            /\ UNCHANGED <<offsetHierarchy, offsetDurationPairs, updatedOffset,
                           remainingLength, stack>>
       ELSE /\ status' = "running"
            /\ offsetHierarchy' = made.val
            /\ offsetDurationPairs' = <<>>
            /\ updatedOffset' = start
            /\ remainingLength' = length
            /\ stack' = <<levelPassFrame>>

\* return from the innermost frame; the outermost levelPass returns to __init__
ReturnFromTop ==
    /\ stack' = SubSeq(stack, 1, Len(stack) - 1)
    /\ status' = IF Len(stack) = 1 THEN "done" ELSE "running"

\* call into a new frame f, the caller's frame left as g
CallFrom(g, f) ==
    IF Len(stack) >= RecursionLimit
    THEN /\ status' = "raised"
         /\ result' = Raise("RecursionError")
         /\ stack' = <<>>
    ELSE /\ status' = "running"
         /\ result' = result
         /\ stack' = setTop(g) \o <<f>>

\* the first level at or after levelIndex that holds updatedOffset, or
\* len(offsetHierarchy) when none does
firstLevelWith(offset, levelIndex) ==
    IF \E j \in levelIndex..(Len(offsetHierarchy) - 1) : In(offset, offsetHierarchy[j + 1])
    THEN CHOOSE j \in levelIndex..(Len(offsetHierarchy) - 1) :
            /\ In(offset, offsetHierarchy[j + 1])
            /\ \A k \in levelIndex..(j - 1) : ~In(offset, offsetHierarchy[k + 1])
    ELSE Len(offsetHierarchy)

\* lines 212-213, and line 228 failing: nothing remains, levelPass returns
LevelPassNothingLeft ==
    /\ status = "running" /\ top.fn = "levelPass" /\ top.pc = "for"
    /\ remainingLength <= 0
    /\ ReturnFromTop
    /\ UNCHANGED <<call, result, offsetHierarchy, noteStartOffset, noteLength,
                   splitSameLevel, offsetDurationPairs, updatedOffset, remainingLength>>

\* lines 217-221: updatedOffset is in level 0; the rest is one pair
LevelPassTopLevel ==
    /\ status = "running" /\ top.fn = "levelPass" /\ top.pc = "for"
    /\ remainingLength > 0
    /\ firstLevelWith(updatedOffset, top.levelIndex) = 0
    /\ offsetDurationPairs' = Append(offsetDurationPairs, <<updatedOffset, remainingLength>>)
    /\ ReturnFromTop
    /\ UNCHANGED <<call, result, offsetHierarchy, noteStartOffset, noteLength,
                   splitSameLevel, updatedOffset, remainingLength>>

\* levelToAdvanceOn reaching one level too far up (never above level 0)
levelToAdvanceOnTooHigh(j) ==
    IF splitSameLevel THEN offsetHierarchy[j] ELSE offsetHierarchy[Max(1, j - 1)]

\* levelToAdvanceOn with splitSameLevel ignored
levelToAdvanceOnNoOption(j) == offsetHierarchy[j]

\* levelToAdvanceOn giving the last, finest level whatever level was found
levelToAdvanceOnFinest(j) == offsetHierarchy[Len(offsetHierarchy)]

\* the level advanceOneStep is given for a start found in level j > 0 (lines 223-226)
levelToAdvanceOn(j) ==
    IF splitSameLevel THEN offsetHierarchy[j + 1] ELSE offsetHierarchy[j]

\* lines 217, 222-226: updatedOffset is first found in a level below level 0
LevelPassLevelUp ==
    /\ status = "running" /\ top.fn = "levelPass" /\ top.pc = "for"
    /\ remainingLength > 0
    /\ LET j == firstLevelWith(updatedOffset, top.levelIndex) IN
        /\ 0 < j /\ j < Len(offsetHierarchy)
        /\ CallFrom([top EXCEPT !.levelIndex = j + 1],
                    advanceOneStepFrame(levelToAdvanceOn(j)))
    /\ UNCHANGED <<call, offsetHierarchy, noteStartOffset, noteLength,
                   splitSameLevel, offsetDurationPairs, updatedOffset, remainingLength>>

\* lines 228-229: the loop is over and something remains
LevelPassNotInHierarchy ==
    /\ status = "running" /\ top.fn = "levelPass" /\ top.pc = "for"
    /\ remainingLength > 0
    /\ firstLevelWith(updatedOffset, top.levelIndex) = Len(offsetHierarchy)
    /\ CallFrom([top EXCEPT !.levelIndex = Len(offsetHierarchy), !.pc = "tail"],
                advanceOneStepFrame(offsetHierarchy[Len(offsetHierarchy)]))
    /\ UNCHANGED <<call, offsetHierarchy, noteStartOffset, noteLength,
                   splitSameLevel, offsetDurationPairs, updatedOffset, remainingLength>>

\* line 231: levelPass calls itself
LevelPassAgain ==
    /\ status = "running" /\ top.fn = "levelPass" /\ top.pc = "tail"
    /\ CallFrom([top EXCEPT !.pc = "end"], levelPassFrame)
    /\ UNCHANGED <<call, offsetHierarchy, noteStartOffset, noteLength,
                   splitSameLevel, offsetDurationPairs, updatedOffset, remainingLength>>

\* the return after line 231 and the one of line 255
ReturnAfterLevelPass ==
    /\ status = "running" /\ top.pc = "end"
    /\ ReturnFromTop
    /\ UNCHANGED <<call, result, offsetHierarchy, noteStartOffset, noteLength,
                   splitSameLevel, offsetDurationPairs, updatedOffset, remainingLength>>

\* is there a position after offset in positionsList
hasNextPosition(positionsList, offset) ==
    {i \in 1..Len(positionsList) : positionsList[i] > offset} # {}

\* nextPosition taking a p that is updatedOffset itself (p >= offset)
nextPositionOrSame(positionsList, offset) ==
    positionsList[CHOOSE i \in 1..Len(positionsList) :
                    /\ positionsList[i] >= offset
                    /\ \A j \in 1..(i - 1) : ~(positionsList[j] >= offset)]

\* the first p of positionsList with p > offset (lines 239-240)
nextPosition(positionsList, offset) ==
    positionsList[CHOOSE i \in 1..Len(positionsList) :
                    /\ positionsList[i] > offset
                    /\ \A j \in 1..(i - 1) : ~(positionsList[j] > offset)]

\* lines 239-240 with no p beyond updatedOffset: the loop ends, nothing done
AdvanceNoPosition ==
    /\ status = "running" /\ top.fn = "advanceOneStep" /\ top.pc = "for"
    /\ ~hasNextPosition(top.positionsList, updatedOffset)
    /\ ReturnFromTop
    /\ UNCHANGED <<call, result, offsetHierarchy, noteStartOffset, noteLength,
                   splitSameLevel, offsetDurationPairs, updatedOffset, remainingLength>>

\* AdvanceLast recording the whole step to the next position, not what remains
AdvanceLastWholeStep ==
    /\ status = "running" /\ top.fn = "advanceOneStep" /\ top.pc = "for"
    /\ hasNextPosition(top.positionsList, updatedOffset)
    /\ LET durationToNextPosition == nextPosition(top.positionsList, updatedOffset) - updatedOffset IN
        /\ remainingLength <= durationToNextPosition
        /\ offsetDurationPairs' = Append(offsetDurationPairs, <<updatedOffset, durationToNextPosition>>)
        /\ remainingLength' = remainingLength - durationToNextPosition
    /\ ReturnFromTop
    /\ UNCHANGED <<call, result, offsetHierarchy, noteStartOffset, noteLength,
                   splitSameLevel, updatedOffset>>

\* AdvanceLast leaving remainingLength as it is after the last pair
AdvanceLastKeepRemaining ==
    /\ status = "running" /\ top.fn = "advanceOneStep" /\ top.pc = "for"
    /\ hasNextPosition(top.positionsList, updatedOffset)
    /\ LET durationToNextPosition == nextPosition(top.positionsList, updatedOffset) - updatedOffset IN
        /\ remainingLength <= durationToNextPosition
        /\ offsetDurationPairs' = Append(offsetDurationPairs, <<updatedOffset, remainingLength>>)
    /\ ReturnFromTop
    /\ UNCHANGED <<call, result, offsetHierarchy, noteStartOffset, noteLength,
                   splitSameLevel, updatedOffset, remainingLength>>

\* lines 241-247: what remains ends at or before the next position
AdvanceLast ==
    /\ status = "running" /\ top.fn = "advanceOneStep" /\ top.pc = "for"
    /\ hasNextPosition(top.positionsList, updatedOffset)
    /\ LET durationToNextPosition == nextPosition(top.positionsList, updatedOffset) - updatedOffset IN
        /\ remainingLength <= durationToNextPosition
        /\ offsetDurationPairs' = Append(offsetDurationPairs, <<updatedOffset, remainingLength>>)
        /\ remainingLength' = remainingLength - durationToNextPosition
    /\ ReturnFromTop
    /\ UNCHANGED <<call, result, offsetHierarchy, noteStartOffset, noteLength,
                   splitSameLevel, updatedOffset>>

\* AdvanceSplit recording the pair at the position moved to, not the one left
AdvanceSplitAtNewOffset ==
    /\ status = "running" /\ top.fn = "advanceOneStep" /\ top.pc = "for"
    /\ hasNextPosition(top.positionsList, updatedOffset)
    /\ LET p == nextPosition(top.positionsList, updatedOffset)
           durationToNextPosition == p - updatedOffset IN
        /\ remainingLength > durationToNextPosition
        /\ offsetDurationPairs' = Append(offsetDurationPairs, <<p, durationToNextPosition>>)
        /\ updatedOffset' = p
        /\ remainingLength' = remainingLength - durationToNextPosition
    /\ CallFrom([top EXCEPT !.pc = "end"], levelPassFrame)
    /\ UNCHANGED <<call, offsetHierarchy, noteStartOffset, noteLength, splitSameLevel>>

\* lines 248-254: a pair up to the next position, then levelPass from there
AdvanceSplit ==
    /\ status = "running" /\ top.fn = "advanceOneStep" /\ top.pc = "for"
    /\ hasNextPosition(top.positionsList, updatedOffset)
    /\ LET p == nextPosition(top.positionsList, updatedOffset)
           durationToNextPosition == p - updatedOffset IN
        /\ remainingLength > durationToNextPosition
        /\ offsetDurationPairs' = Append(offsetDurationPairs, <<updatedOffset, durationToNextPosition>>)
        /\ updatedOffset' = p
        /\ remainingLength' = remainingLength - durationToNextPosition
    /\ CallFrom([top EXCEPT !.pc = "end"], levelPassFrame)
    /\ UNCHANGED <<call, offsetHierarchy, noteStartOffset, noteLength, splitSameLevel>>


\* ------------------------------------------------------------------ inputs

\* the time signatures of offsetHierarchyExamples, and more of each kind
TimeSignatures ==
    { <<"2", "/", "2">>, <<"3", "/", "2">>, <<"4", "/", "2">>,
      <<"2", "/", "4">>, <<"3", "/", "4">>, <<"4", "/", "4">>, <<"5", "/", "4">>,
      <<"6", "/", "8">>, <<"9", "/", "8">>, <<"1", "2", "/", "8">>, <<"1", "5", "/", "8">>,
      <<"6", "/", "4">>, <<"7", "/", "1", "6">>, <<"3", "/", "1">>, <<"4", "/", "6", "4">>,
      <<"2", "+", "3", "/", "4">>, <<"3", "+", "2", "/", "4">>,
      <<"2", "+", "2", "+", "3", "/", "4">>, <<"3", "+", "2", "+", "2", "/", "4">>,
      <<"2", "+", "3", "+", "2", "/", "4">>,
      <<"2", "+", "2", "+", "3", "/", "8">>, <<"2", "+", "2", "+", "2", "+", "3", "/", "8">>,
      <<"6", "+", "9", "/", "8">>, <<"9", "+", "6", "/", "8">>, <<"9", "+", "6", "/", "1", "6">> }

\* strings offsetHierarchyFromTS does not accept
BadTimeSignatures ==
    { <<"4", "/", "3">>, <<"4">>, <<"/", "4">>, <<"4", "/", "4", "/", "4">>,
      <<"2", "+", "/", "4">>, <<>> }

\* values given for minimumPulse: the supported ones and one that is not
MinimumPulses == {supportedDenominators[i] : i \in 1..Len(supportedDenominators)} \cup {3}

\* most level indices in a list given for levels
MaxLevels == 2

\* the lists given for levels: indices from 0 to one past the deepest accepted
LevelLists ==
    UNION {[1..n -> 0..(maxLevelDepth + 1)] : n \in 1..MaxLevels}

\* pulse lengths in whole ticks, small enough to enumerate their multiples
PulseValues == {1, 2, 3, 4, 6}

\* most pulse lengths in a list given for pulseLengths
MaxPulses == 3

\* the pulse lists of Test.setUp (4, 2, 1; 4, 0.5; 3, 1.5, 0.5 quarter lengths)
testPulses == { <<64, 32, 16>>, <<64, 8>>, <<48, 24, 8>> }

PulseLists == UNION {[1..n -> PulseValues] : n \in 1..MaxPulses} \cup testPulses

\* the increasing list of the numbers of S
RECURSIVE listOf(_)
listOf(S) ==
    IF S = {} THEN <<>>
    ELSE LET m == CHOOSE x \in S : \A y \in S : x <= y
         IN  <<m>> \o listOf(S \ {m})

\* every hierarchy of measure length L with d levels below level 0: level 0 is
\* [0, L], each level increases from 0 to L and holds the level above it
HierarchiesOf(L, d) ==
    { << <<0, L>> >> \o [i \in 1..d |-> listOf({0, L} \cup c[i])] :
        c \in { f \in [1..d -> SUBSET (1..(L - 1))] :
                    \A i \in 1..(d - 1) : f[i] \subseteq f[i + 1] } }

Hierarchies == UNION {HierarchiesOf(L, d) : L \in 1..MaxMeasure, d \in 0..MaxDepth}

\* the length of a hierarchy's measure: the last offset of its level 0
measureLengthOf(h) == h[1][Len(h[1])]

\* the shortest step of the last level of h
RECURSIVE shortestStep(_)
shortestStep(level) ==
    IF Len(level) <= 2 THEN level[2] - level[1]
    ELSE LET rest == shortestStep(Tail(level))
         IN  IF level[2] - level[1] < rest THEN level[2] - level[1] ELSE rest

\* notes are tried on a grid half as wide as the last level's shortest step
gridOf(h) == Max(1, shortestStep(h[Len(h)]) \div 2)

\* the start offsets tried: from one grid step before 0 to one after the end
StartsOf(h) == {k * gridOf(h) : k \in (-1)..(measureLengthOf(h) \div gridOf(h) + 1)}

\* the lengths tried for a note at start: from 0 to the one that ends one
\* grid step (or a part of one) after the measure
LengthsOf(h, start) ==
    {k * gridOf(h) : k \in 0..Max(1, (measureLengthOf(h) - start) \div gridOf(h) + 1)}

\* explicit hierarchies that break the Level and Hierarchy invariants: a level
\* with an offset the next level lacks, a level 0 that ends before the other
\* levels do, a level 0 that does not begin at 0
MalformedHierarchies ==
    { << <<0, 4>>, <<0, 3, 4>>, <<0, 2, 4>> >>,
      << <<0, 2>>, <<0, 1, 2, 3, 4>> >>,
      << <<1, 4>>, <<0, 2, 4>> >> }

\* the hierarchy sources given to ReGrouper
Sources ==
    {[timeSignature |-> None, levels |-> <<>>, pulseLengths |-> <<>>, offsetHierarchy |-> h] :
        h \in MalformedHierarchies}
    \cup
    {[timeSignature |-> None, levels |-> <<>>, pulseLengths |-> <<>>, offsetHierarchy |-> h] :
        h \in Hierarchies}
    \cup
    {[timeSignature |-> None, levels |-> <<>>, pulseLengths |-> p, offsetHierarchy |-> <<>>] :
        p \in UNION {[1..n -> PulseValues] : n \in 1..2}}
    \cup
    {[timeSignature |-> t, levels |-> l, pulseLengths |-> <<>>, offsetHierarchy |-> <<>>] :
        t \in {None, <<"6", "/", "8">>, <<"4", "/", "4">>},
        l \in {<<>>, <<1, 2>>, <<3>>, <<7>>}}
    \cup
    {[timeSignature |-> <<"6", "/", "8">>, levels |-> <<6>>, pulseLengths |-> <<>>,
      offsetHierarchy |-> <<>>]}
    \cup
    {[timeSignature |-> t, levels |-> l, pulseLengths |-> p, offsetHierarchy |-> h] :
        t \in {None, <<"6", "/", "8">>},
        l \in {<<>>, <<1>>}, p \in {<<>>, <<2, 1>>}, h \in {<<>>, << <<0, 3>>, <<0, 1, 3>> >>}}

\* -------------------------------------------------------------- the machine

Init ==
    /\ call = [fn |-> "none"]
    /\ result = Return(<<>>)
    /\ status = "idle"
    /\ offsetHierarchy = <<>>
    /\ noteStartOffset = 0
    /\ noteLength = 0
    /\ splitSameLevel = FALSE
    /\ offsetDurationPairs = <<>>
    /\ updatedOffset = 0
    /\ remainingLength = 0
    /\ stack = <<>>

\* a call of one of the module's functions, outside any ReGrouper
Called(c, r) ==
    /\ status = "idle"
    /\ call' = c
    /\ result' = r
    /\ status' = IF r.err = "" THEN "returned" ELSE "raised"
    /\ UNCHANGED fields

CallOffsetHierarchyFromTS ==
    /\ status = "idle"
    /\ \E tsStr \in TimeSignatures \cup BadTimeSignatures \cup {None}, minimumPulse \in MinimumPulses :
        Called([fn |-> "offsetHierarchyFromTS", tsStr |-> tsStr, minimumPulse |-> minimumPulse],
               offsetHierarchyFromTS(tsStr, minimumPulse))

CallOffsetsFromTSAndLevels ==
    /\ status = "idle"
    /\ \E timeSigStr \in TimeSignatures \cup BadTimeSignatures, levels \in LevelLists :
        Called([fn |-> "offsetsFromTSAndLevels", timeSigStr |-> timeSigStr, levels |-> levels],
               offsetsFromTSAndLevels(timeSigStr, levels))

CallOffsetListFromPulseLengths ==
    /\ status = "idle"
    /\ \E pulseLengths \in PulseLists, measureLength \in {0, 2, 3, 4, 6, 8, 9, 12},
       require2or3betweenLevels \in BOOLEAN :
        Called([fn |-> "offsetListFromPulseLengths", pulseLengths |-> pulseLengths,
                measureLength |-> measureLength,
                require2or3betweenLevels |-> require2or3betweenLevels],
               offsetListFromPulseLengths(pulseLengths, measureLength, require2or3betweenLevels))

NewReGrouper ==
    /\ status = "idle"
    /\ \E s \in Sources, sameLevel \in BOOLEAN :
        LET made == createHierarchy(s.timeSignature, s.levels, s.pulseLengths, s.offsetHierarchy)
            h == IF made.err = "" THEN made.val ELSE << <<0, 1>> >>
        IN  \E start \in StartsOf(h) : \E length \in LengthsOf(h, start) :
                Construct(start, length, s.timeSignature, s.levels, s.pulseLengths,
                          s.offsetHierarchy, sameLevel)

Next ==
    \/ CallOffsetHierarchyFromTS
    \/ CallOffsetsFromTSAndLevels
    \/ CallOffsetListFromPulseLengths
    \/ NewReGrouper
    \/ LevelPassNothingLeft
    \/ LevelPassTopLevel
    \/ LevelPassLevelUp
    \/ LevelPassNotInHierarchy
    \/ LevelPassAgain
    \/ ReturnAfterLevelPass
    \/ AdvanceNoPosition
    \/ AdvanceLast
    \/ AdvanceSplit

Spec == Init /\ [][Next]_vars

\* the steps of a call of levelPass under way: the interpreter takes them one
\* after the other until the outermost levelPass returns or an error is raised
Run ==
    \/ LevelPassNothingLeft
    \/ LevelPassTopLevel
    \/ LevelPassLevelUp
    \/ LevelPassNotInHierarchy
    \/ LevelPassAgain
    \/ ReturnAfterLevelPass
    \/ AdvanceNoPosition
    \/ AdvanceLast
    \/ AdvanceSplit

\* Spec, with a call under way never left standing
FairSpec == Spec /\ WF_vars(Run)


\* ------------------------------------------------------------ well-formedness

\* the hierarchy in use has a level 0 that ends at the measure length
measureLength == measureLengthOf(offsetHierarchy)

\* only a note that starts after the end of the measure recurses without end:
\* the stand-in limit cuts no run short that would have ended
RecursionLimitIsEnough ==
    (status = "raised" /\ result.err = "RecursionError")
        => (noteStartOffset > measureLength /\ noteLength > 0)


\* ---------------------------------------------- what the claims speak about

\* level increases strictly, from 0 to L
IsLevel(level, L) ==
    /\ Len(level) >= 2
    /\ level[1] = 0
    /\ level[Len(level)] = L
    /\ \A i \in 1..(Len(level) - 1) : level[i] < level[i + 1]

\* every offset of a level of h is in every later level of h
MonotoneRefinement(h) ==
    \A i \in 1..Len(h) : \A j \in (i + 1)..Len(h) :
        \A a \in 1..Len(h[i]) : \E b \in 1..Len(h[j]) : h[j][b] = h[i][a]

\* the Level and Hierarchy invariants: level 0 is [0, L], every level increases
\* strictly from 0 to L, and the levels refine monotonically
ValidHierarchy(h) ==
    /\ Len(h) >= 1
    /\ Len(h[1]) = 2
    /\ \A i \in 1..Len(h) : IsLevel(h[i], h[1][2])
    /\ MonotoneRefinement(h)

\* a ReGrouper was built on a valid hierarchy and its levelPass has returned
SplitDone == status = "done" /\ call.fn = "ReGrouper" /\ ValidHierarchy(offsetHierarchy)

\* the note lies in the measure: it starts in [0, L), has a length and ends by L
NoteInMeasure ==
    /\ 0 <= noteStartOffset /\ noteStartOffset < measureLength
    /\ noteLength > 0
    /\ noteStartOffset + noteLength <= measureLength

\* the sum of the lengths of a list of (position, length) pairs
RECURSIVE totalLength(_)
totalLength(pairs) == IF pairs = <<>> THEN 0 ELSE Head(pairs)[2] + totalLength(Tail(pairs))

\* the index of the first (strongest) level that holds pos; the number of
\* levels when no level holds it
startLevel(pos) ==
    IF \E i \in 0..(Len(offsetHierarchy) - 1) : In(pos, offsetHierarchy[i + 1])
    THEN CHOOSE i \in 0..(Len(offsetHierarchy) - 1) :
            /\ In(pos, offsetHierarchy[i + 1])
            /\ \A k \in 0..(i - 1) : ~In(pos, offsetHierarchy[k + 1])
    ELSE Len(offsetHierarchy)

\* the boundaries of level i (counted from 0) of the hierarchy in use
boundaries(i) == {offsetHierarchy[i + 1][k] : k \in 1..Len(offsetHierarchy[i + 1])}

\* the first boundary of level i after pos, for a pos before the measure's end
nextBoundary(i, pos) ==
    CHOOSE b \in boundaries(i) : b > pos /\ \A c \in boundaries(i) : c > pos => b <= c

\* ------------------------------------------------------------------- claims

\* C1: length conservation.  For a note in the measure of a valid hierarchy,
\* with either splitSameLevel, the lengths of the pairs in
\* offsetDurationPairs add up to the note's length.
C1_LengthConservation ==
    (SplitDone /\ NoteInMeasure) => totalLength(offsetDurationPairs) = noteLength

\* C1 happens: a note in the measure was split into three pairs or more
C1_Witness ==
    SplitDone /\ NoteInMeasure /\ Len(offsetDurationPairs) >= 3

C3_BoundaryRespect ==
    (SplitDone /\ NoteInMeasure) =>
        \A k \in 1..Len(offsetDurationPairs) :
            LET pos == offsetDurationPairs[k][1]
                len == offsetDurationPairs[k][2]
            IN  \A i \in 0..(startLevel(pos) - 1) : \A b \in boundaries(i) :
                    ~(pos < b /\ b < pos + len)

\* C3 happens: a pair that starts on a boundary of a level below level 0
\* runs over a boundary of a weaker level, and another pair follows it
C3_Witness ==
    /\ SplitDone /\ NoteInMeasure
    /\ \E k \in 1..(Len(offsetDurationPairs) - 1) :
          LET pos == offsetDurationPairs[k][1]
              len == offsetDurationPairs[k][2]
          IN  /\ 0 < startLevel(pos) /\ startLevel(pos) < Len(offsetHierarchy)
              /\ \E i \in (startLevel(pos) + 1)..(Len(offsetHierarchy) - 1) :
                    \E b \in boundaries(i) : pos < b /\ b < pos + len


\* offsetHierarchyFromTS was called and returned a hierarchy
HierarchyFromTSReturned == call.fn = "offsetHierarchyFromTS" /\ result.err = ""

\* C4: monotone refinement of constructed hierarchies.  In every hierarchy
\* offsetHierarchyFromTS returns, each offset of a level is in every later level.
C4_MonotoneRefinement ==
    HierarchyFromTSReturned => MonotoneRefinement(result.val)

\* the numerators written in tsStr, added up
writtenNumerators(tsStr) ==
    LET written == split(split(tsStr, "/")[1], "+")
    IN  sum([i \in 1..Len(written) |-> int(written[i])])

\* the denominator written in tsStr
writtenDenominator(tsStr) == int(split(tsStr, "/")[2])

\* C5: level shape.  For every hierarchy offsetHierarchyFromTS returns, with L
\* the sum of the written numerators * 4 / denominator quarter lengths (16
\* ticks each), level 0 is [0, L] and every level increases strictly from 0 to L.
C5_LevelShape ==
    HierarchyFromTSReturned =>
        LET L == (writtenNumerators(call.tsStr) * 4 * 16) \div writtenDenominator(call.tsStr)
        IN  /\ result.val[1] = <<0, L>>
            /\ \A i \in 1..Len(result.val) : IsLevel(result.val[i], L)

\* offsetHierarchyFromTS('2+2+3/8') returned, at a minimumPulse that gives the
\* levels the claim speaks of
Returned223over8 ==
    /\ HierarchyFromTSReturned
    /\ call.tsStr = <<"2", "+", "2", "+", "3", "/", "8">>

C7_SameLevelSplit ==
    /\ (SplitDone /\ NoteInMeasure) =>
          \A k \in 1..Len(offsetDurationPairs) :
              LET pos == offsetDurationPairs[k][1]
                  len == offsetDurationPairs[k][2]
                  i == startLevel(pos)
              IN  (0 < i /\ i < Len(offsetHierarchy)) =>
                      pos + len <= nextBoundary(IF splitSameLevel THEN i ELSE i - 1, pos)
    /\ (/\ status = "done" /\ call.fn = "ReGrouper"
        /\ call.timeSignature = <<"6", "/", "8">> /\ call.levels = <<>>
        /\ call.pulseLengths = <<>> /\ call.offsetHierarchy = <<>>
        /\ noteStartOffset = 8) =>
          /\ (noteLength = 16 /\ ~splitSameLevel) => offsetDurationPairs = << <<8, 16>> >>
          /\ (noteLength = 16 /\ splitSameLevel)
                => offsetDurationPairs = << <<8, 8>>, <<16, 8>> >>
          /\ (noteLength = 32 /\ ~splitSameLevel)
                => offsetDurationPairs = << <<8, 16>>, <<24, 16>> >>
          /\ (noteLength = 32 /\ splitSameLevel)
                => offsetDurationPairs = << <<8, 8>>, <<16, 8>>, <<24, 16>> >>

\* C7 happens: the 6/8 note (0.5, 2) was split with splitSameLevel on
C7_Witness ==
    /\ SplitDone /\ NoteInMeasure /\ splitSameLevel
    /\ call.timeSignature = <<"6", "/", "8">> /\ call.levels = <<>>
    /\ call.pulseLengths = <<>> /\ call.offsetHierarchy = <<>>
    /\ noteStartOffset = 8 /\ noteLength = 32
    /\ Len(offsetDurationPairs) = 3

\* C8: level-subset selection.  For a supported time signature and a list of
\* level indices, offsetsFromTSAndLevels raises when an index is above 6, and
\* otherwise returns level 0 of offsetHierarchyFromTS(timeSigStr), then the
\* levels asked for by ascending index (level 0 once, asked for or not).
C8_LevelSubset ==
    (call.fn = "offsetsFromTSAndLevels" /\ call.timeSigStr \in TimeSignatures) =>
        LET asked == {call.levels[i] : i \in 1..Len(call.levels)}
            full == offsetHierarchyFromTS(call.timeSigStr, DefaultMinimumPulse).val
            below == [i \in 1..Len(listOf(asked \ {0})) |-> full[listOf(asked \ {0})[i] + 1]]
        IN  /\ (\E x \in asked : x > 6) => result.err # ""
            /\ (\A x \in asked : x <= 6) =>
                  /\ result.err = ""
                  /\ \/ result.val = <<full[1]>> \o below
                     \/ Cardinality(asked) < Len(call.levels)

\* the steps between the neighbours of a level are all the same
EvenlySpaced(level) ==
    \A i \in 1..(Len(level) - 1) : level[i + 1] - level[i] = level[2] - level[1]

\* the multiples of pulse below length, then length
multiplesThenEnd(pulse, length) ==
    listOf({n \in 0..(length - 1) : n % pulse = 0}) \o <<length>>

\* d holds the numbers of the list xs, each as often, largest first
LargestFirstOf(d, xs) ==
    /\ Len(d) = Len(xs)
    /\ \A k \in 1..(Len(d) - 1) : d[k] >= d[k + 1]
    /\ \A v \in {xs[i] : i \in 1..Len(xs)} :
          Cardinality({i \in 1..Len(xs) : xs[i] = v})
              = Cardinality({k \in 1..Len(d) : d[k] = v})

\* C9, first half: offsetListFromPulseLengths with no measureLength returns
\* one level per pulse, the pulses largest first whatever their order was,
\* level k being the multiples of the k-th pulse below the largest, then the
\* largest.
C9_LevelPerPulse ==
    (/\ call.fn = "offsetListFromPulseLengths"
     /\ call.measureLength = 0 /\ ~call.require2or3betweenLevels) =>
        /\ result.err = ""
        /\ LET d == [k \in 1..Len(result.val) |-> result.val[k][2]]
           IN  /\ LargestFirstOf(d, call.pulseLengths)
               /\ \A k \in 1..Len(d) : result.val[k] = multiplesThenEnd(d[k], d[1])

\* C9: the pulse-length construction agrees with the one from a time
\* signature.  C9_LevelPerPulse holds and, whenever every level that
\* offsetsFromTSAndLevels returned is evenly spaced, offsetListFromPulseLengths
\* returns the same hierarchy for the list of those spacings.
C9_PulsesAgreeWithTS ==
    /\ C9_LevelPerPulse
    /\ (/\ call.fn = "offsetsFromTSAndLevels" /\ result.err = ""
        /\ \A k \in 1..Len(result.val) : EvenlySpaced(result.val[k])) =>
          offsetListFromPulseLengths(
              [k \in 1..Len(result.val) |-> result.val[k][2] - result.val[k][1]], 0, FALSE)
            = result

\* the pulse lists of Test.setUp give what offsetsFromTSAndLevels gives for
\* the time signature and levels they stand beside
C9_TestMetres ==
    (/\ call.fn = "offsetListFromPulseLengths"
     /\ call.measureLength = 0 /\ ~call.require2or3betweenLevels) =>
        /\ call.pulseLengths = <<64, 32, 16>>
              => result = offsetsFromTSAndLevels(<<"4", "/", "4">>, <<1, 2>>)
        /\ call.pulseLengths = <<64, 8>>
              => result = offsetsFromTSAndLevels(<<"4", "/", "4">>, <<3>>)
        /\ call.pulseLengths = <<48, 24, 8>>
              => result = offsetsFromTSAndLevels(<<"6", "/", "8">>, <<1, 2>>)

\* offsetListFromPulseLengths was called with require2or3betweenLevels True
RatioChecked == call.fn = "offsetListFromPulseLengths" /\ call.require2or3betweenLevels

\* two pulse lengths of the call are neighbours by size (no pulse length of
\* the call lies strictly between them, or they are equal and given twice) and
\* the larger is neither twice nor three times the smaller
SomeRatioNot2or3 ==
    \E i, j \in 1..Len(call.pulseLengths) :
        LET a == call.pulseLengths[i]
            b == call.pulseLengths[j]
        IN  /\ i # j
            /\ a >= b
            /\ \A k \in 1..Len(call.pulseLengths) :
                  ~(b < call.pulseLengths[k] /\ call.pulseLengths[k] < a)
            /\ a # 2 * b /\ a # 3 * b

\* C10 as stated: with require2or3betweenLevels True the call raises exactly
\* when two pulse lengths next to each other by size are in a ratio other than
\* 2 or 3; with it False the call returns.
C10_AsStated ==
    /\ RatioChecked => (result.err # "" <=> SomeRatioNot2or3)
    /\ (call.fn = "offsetListFromPulseLengths" /\ ~call.require2or3betweenLevels
        /\ call.measureLength = 0) => result.err = ""

\* the measureLength given is none, or not below the largest pulse length
MeasureLengthFits ==
    call.measureLength = 0
        \/ \A i \in 1..Len(call.pulseLengths) : call.pulseLengths[i] <= call.measureLength

\* C10 amended: when the measureLength given is none or not below the largest
\* pulse length, the call with require2or3betweenLevels True raises exactly
\* when two pulse lengths next to each other by size are in a ratio other than
\* 2 or 3, and the call with it False returns.
C10_Amended ==
    /\ (RatioChecked /\ MeasureLengthFits) => (result.err # "" <=> SomeRatioNot2or3)
    /\ (call.fn = "offsetListFromPulseLengths" /\ ~call.require2or3betweenLevels
        /\ MeasureLengthFits) => result.err = ""

\* C10 happens: the pulse lengths 4 and 1 were given, the ratio checked and
\* the call raised
C10_Witness ==
    /\ RatioChecked /\ MeasureLengthFits
    /\ call.pulseLengths = <<4, 1>>
    /\ result.err = "ValueError"

\* offsetListFromPulseLengths was called with a measureLength
MeasureLengthGiven == call.fn = "offsetListFromPulseLengths" /\ call.measureLength # 0

\* C11: the measureLength given is validated.  offsetListFromPulseLengths
\* raises when the measureLength given is below the largest pulse length, and
\* with require2or3betweenLevels True it also raises when the measureLength
\* given is neither twice nor three times the largest pulse length.
C11_MeasureLengthValidated ==
    MeasureLengthGiven =>
        /\ max(call.pulseLengths) > call.measureLength => result.err # ""
        /\ (/\ call.require2or3betweenLevels
            /\ call.measureLength # 2 * max(call.pulseLengths)
            /\ call.measureLength # 3 * max(call.pulseLengths)) => result.err # ""

\* ReGrouper was called with an explicit offsetHierarchy
ExplicitHierarchyGiven == call.fn = "ReGrouper" /\ call.offsetHierarchy # <<>>

\* level 0 of h is [0, L] for a measure length L
LevelZeroIsMeasure(h) == Len(h[1]) = 2 /\ h[1][1] = 0 /\ h[1][2] > 0

\* C12: explicit hierarchies are validated before use.  An explicit
\* offsetHierarchy whose level 0 is [0, measureLength] and whose levels refine
\* monotonically is used unchanged; one that breaks either condition is
\* rejected with an error by the constructor, which starts no levelPass and
\* records no pair.
C12_ExplicitHierarchyValidated ==
    ExplicitHierarchyGiven =>
        IF LevelZeroIsMeasure(call.offsetHierarchy) /\ MonotoneRefinement(call.offsetHierarchy)
        THEN offsetHierarchy = call.offsetHierarchy
        ELSE status = "raised" /\ stack = <<>> /\ offsetDurationPairs = <<>>

\* ReGrouper was called, got its hierarchy, and the note has a length and
\* starts before 0 or not before the end of the measure
StartOutOfRange ==
    /\ call.fn = "ReGrouper" /\ result.val # <<>>
    /\ noteLength > 0
    /\ (noteStartOffset < 0 \/ noteStartOffset >= measureLengthOf(result.val))

\* C13: a start out of range is an error.  With noteStartOffset < 0 or
\* noteStartOffset >= L and a length above 0, the constructor raises at once:
\* no levelPass runs, no pair is recorded, the recursion limit is not what
\* ends the call.
C13_OutOfRangeStartRaises ==
    StartOutOfRange =>
        /\ status = "raised"
        /\ result.err # "RecursionError"
        /\ offsetDurationPairs = <<>>

\* ReGrouper was called with no timeSignature, levels, pulseLengths or
\* offsetHierarchy
NoSourceGiven ==
    /\ call.fn = "ReGrouper"
    /\ call.timeSignature = None /\ call.levels = <<>>
    /\ call.pulseLengths = <<>> /\ call.offsetHierarchy = <<>>

\* C14: no source is a configuration error.  ReGrouper with timeSignature,
\* levels, pulseLengths and offsetHierarchy all None raises ValueError (the one
\* of lines 174 and 180) and nothing else, and starts no levelPass.
C14_NoSourceIsValueError ==
    NoSourceGiven =>
        /\ status = "raised"
        /\ result.err = "ValueError"
        /\ stack = <<>> /\ offsetDurationPairs = <<>>

\* the levels of the list chosen that are levels of the list full, in order
IsSelectionOf(chosen, full) ==
    \A k \in 1..Len(chosen) : \E i \in 1..Len(full) : chosen[k] = full[i]

\* C15: source precedence.  The hierarchy ReGrouper uses is the explicit
\* offsetHierarchy when one is given, whatever the other arguments; otherwise
\* the one level per pulse of a non-empty pulseLengths, whatever levels and
\* timeSignature are; otherwise the levels asked for of the time signature's
\* hierarchy; otherwise levels of the time signature's hierarchy by default.
\* levels without a timeSignature is an error only in the third case.
\* (result is what the choice of the source gave, until a RecursionError of the
\* splitting replaces it.)
C15_SourcePrecedence ==
    (call.fn = "ReGrouper" /\ result.err # "RecursionError") =>
        IF call.offsetHierarchy # <<>>
        THEN result = Return(call.offsetHierarchy)
        ELSE IF call.pulseLengths # <<>>
        THEN /\ result.err = ""
             /\ LET d == [k \in 1..Len(result.val) |-> result.val[k][2]]
                IN  /\ LargestFirstOf(d, call.pulseLengths)
                    /\ \A k \in 1..Len(d) : result.val[k] = multiplesThenEnd(d[k], d[1])
        ELSE IF call.timeSignature = None
        THEN result.err # "" /\ (call.levels # <<>> => result.err = "ValueError")
        ELSE LET full == offsetHierarchyFromTS(call.timeSignature, DefaultMinimumPulse).val
                 asked == {call.levels[i] : i \in 1..Len(call.levels)}
             IN  result.err = "" =>
                    /\ result.val[1] = full[1]
                    /\ IsSelectionOf(result.val, full)
                    /\ call.levels # <<>> =>
                          result.val = [i \in 1..Len(listOf(asked \cup {0})) |->
                                           full[listOf(asked \cup {0})[i] + 1]]

\* C15 happens: a note was split by a ReGrouper given all four sources, on the
\* explicit hierarchy
C15_Witness ==
    /\ status = "done" /\ call.fn = "ReGrouper"
    /\ call.timeSignature # None /\ call.levels # <<>>
    /\ call.pulseLengths # <<>> /\ call.offsetHierarchy # <<>>
    /\ offsetHierarchy = call.offsetHierarchy
    /\ Len(offsetDurationPairs) >= 2

\* ReGrouper was called with a time signature and nothing else, and got a
\* hierarchy
OnlyTimeSignatureGiven ==
    /\ call.fn = "ReGrouper" /\ result.err = ""
    /\ call.timeSignature # None /\ call.levels = <<>>
    /\ call.pulseLengths = <<>> /\ call.offsetHierarchy = <<>>

\* C16: the default uses all levels.  A ReGrouper given a timeSignature and no
\* levels, pulseLengths or offsetHierarchy splits against the whole of
\* offsetHierarchyFromTS(timeSignature), every level down to the 64th note.
C16_DefaultUsesAllLevels ==
    OnlyTimeSignatureGiven =>
        offsetHierarchy = offsetHierarchyFromTS(call.timeSignature, DefaultMinimumPulse).val

\* a levelPass is under way on a valid hierarchy for a note that starts in
\* [0, L), of any length
SplitUnderWay ==
    /\ status = "running" /\ call.fn = "ReGrouper" /\ ValidHierarchy(offsetHierarchy)
    /\ 0 <= noteStartOffset /\ noteStartOffset < measureLength

\* updatedOffset moves forward, to a boundary of the hierarchy
CursorAdvances ==
    /\ updatedOffset' > updatedOffset
    /\ \E i \in 0..(Len(offsetHierarchy) - 1) : updatedOffset' \in boundaries(i)

\* C17: termination.  On a valid hierarchy, for a start in [0, L), any length
\* (none, within the measure, past its end) and either splitSameLevel, levelPass
\* and advanceOneStep come to an end: the outermost levelPass returns, with no
\* error raised; and each advanceOneStep that goes on to another levelPass has
\* moved updatedOffset forward to a boundary of the hierarchy.
C17_Termination ==
    /\ SplitUnderWay ~> (status = "done")
    /\ [][(SplitUnderWay /\ AdvanceSplit) => CursorAdvances]_vars

\* C17 happens: a note that starts in the measure and runs past its end was
\* split, in three steps or more, and levelPass has returned
C17_Witness ==
    /\ SplitDone
    /\ 0 <= noteStartOffset /\ noteStartOffset < measureLength
    /\ noteStartOffset + noteLength > measureLength
    /\ Len(offsetDurationPairs) >= 3

\* C18: a note that runs past the end of the measure keeps its length.  On a
\* valid hierarchy, for a start in (0, L) and start + length > L, the pairs are
\* contiguous, the part after the end of the measure is recorded once, as the
\* last pair (L, start + length - L), and the lengths add up to the note's.
C18_PastMeasureEndKeepsLength ==
    (/\ SplitDone
     /\ 0 < noteStartOffset /\ noteStartOffset < measureLength
     /\ noteStartOffset + noteLength > measureLength) =>
        LET n == Len(offsetDurationPairs) IN
        /\ n >= 2
        /\ offsetDurationPairs[1][1] = noteStartOffset
        /\ \A i \in 1..(n - 1) :
              offsetDurationPairs[i + 1][1]
                  = offsetDurationPairs[i][1] + offsetDurationPairs[i][2]
        /\ offsetDurationPairs[n] = <<measureLength, noteStartOffset + noteLength - measureLength>>
        /\ \A i \in 1..(n - 1) : offsetDurationPairs[i][1] < measureLength
        /\ totalLength(offsetDurationPairs) = noteLength

\* a levelPass is under way on a valid hierarchy for a note in the measure
InMeasureSplitUnderWay ==
    /\ status = "running" /\ call.fn = "ReGrouper" /\ ValidHierarchy(offsetHierarchy)
    /\ NoteInMeasure

\* the innermost frame is a levelPass whose call of advanceOneStep has
\* returned: its for loop is past the level it advanced for (levelIndex is 0
\* until then), or it stands before line 231
AdvanceHasReturned ==
    top.fn = "levelPass" /\ (top.pc = "tail" \/ (top.pc = "for" /\ top.levelIndex > 0))

\* the level advanceOneStep is to be given at offset: for the first level that
\* holds offset (itself with splitSameLevel, the level above it without), the
\* last level when no level holds it
governingLevel(offset) ==
    LET i == startLevel(offset) IN
    IF i = Len(offsetHierarchy) THEN offsetHierarchy[Len(offsetHierarchy)]
    ELSE IF splitSameLevel THEN offsetHierarchy[i + 1]
    ELSE offsetHierarchy[i]

\* C19: the strongest containing level governs.  In every levelPass on a valid
\* hierarchy for a note in the measure, advanceOneStep is called at most once
\* (only by a levelPass that has not called it yet), for the first level that
\* holds updatedOffset or for the last level when none does; once that call
\* has returned remainingLength <= 0, so that levelPass advances no more and
\* records no more pairs.
C19_StrongestLevelGoverns ==
    /\ [](InMeasureSplitUnderWay =>
            /\ AdvanceHasReturned => remainingLength <= 0
            /\ (top.fn = "advanceOneStep" /\ top.pc = "for")
                  => top.positionsList = governingLevel(updatedOffset))
    /\ [][(InMeasureSplitUnderWay /\ (LevelPassLevelUp \/ LevelPassNotInHierarchy))
            => ~AdvanceHasReturned]_vars
    /\ [][(InMeasureSplitUnderWay /\ AdvanceHasReturned)
            => (offsetDurationPairs' = offsetDurationPairs
                /\ updatedOffset' = updatedOffset)]_vars

\* C19 happens: in the third levelPass of a split, the advanceOneStep called
\* for a level below level 0 has returned
C19_Witness ==
    /\ InMeasureSplitUnderWay /\ AdvanceHasReturned
    /\ top.pc = "for" /\ top.levelIndex < Len(offsetHierarchy)
    /\ Len(stack) >= 5
    /\ Len(offsetDurationPairs) >= 3

====
